---- MODULE Spec2Model ----
(***************************************************************************)
(* Model of the FIRE calculator's engine: calculate_month_values,          *)
(* calculate_required_monthly_investment (financial_calculation.py),       *)
(* simulate_time_series and monte_carlo_accruing_wealth (simulation.py).   *)
(*                                                                         *)
(* Amounts and rates are exact rationals <<n, d>> in lowest terms (d > 0); *)
(* the input sets are chosen so that every intermediate value stays within *)
(* the integer range of the model checker.                                 *)
(***************************************************************************)
EXTENDS Integers, Sequences, FiniteSets, TLC

\* ------------------------------------------------------------------------
\* Bounds of the model
\* ------------------------------------------------------------------------
MaxYears == 2
MaxSimulations == 2
MaxAgeGap == 1
MaxBoomYears == 1

\* ------------------------------------------------------------------------
\* Program constants
\* ------------------------------------------------------------------------
MonthsPerYear == 12
DefaultRate == 7
PercentPerYearToMonth == 1200

\* ------------------------------------------------------------------------
\* Exact arithmetic on the numbers the Python code handles as floats
\* ------------------------------------------------------------------------
Abs(a) == IF a < 0 THEN -a ELSE a

RECURSIVE GCD(_, _)
GCD(a, b) == IF b = 0 THEN a ELSE GCD(b, a % b)

Norm(n, d) ==
    IF n = 0 \/ d = 0 THEN <<0, 1>>
    ELSE LET s == IF d < 0 THEN -1 ELSE 1
             g == GCD(Abs(n), Abs(d))
         IN  <<(s * n) \div g, (s * d) \div g>>

R(n) == <<n, 1>>
Zero == R(0)
One == R(1)

RAdd(x, y) ==
    IF x[1] = 0 THEN y
    ELSE IF y[1] = 0 THEN x
    ELSE LET g == GCD(x[2], y[2])
         IN  Norm(x[1] * (y[2] \div g) + y[1] * (x[2] \div g),
                  (x[2] \div g) * y[2])

RNeg(x) == <<-x[1], x[2]>>
RSub(x, y) == RAdd(x, RNeg(y))

RMul(x, y) ==
    IF x[1] = 0 \/ y[1] = 0 THEN Zero
    ELSE LET g1 == GCD(Abs(x[1]), y[2])
             g2 == GCD(Abs(y[1]), x[2])
         IN  Norm((x[1] \div g1) * (y[1] \div g2),
                  (x[2] \div g2) * (y[2] \div g1))

\* x / y for y # 0 (the callers raise ZeroDivisionError before dividing by 0)
RDiv(x, y) == RMul(x, Norm(y[2], y[1]))

RLess(x, y) == RSub(x, y)[1] < 0
RLeq(x, y) == RSub(x, y)[1] <= 0

\* Python's max(a, b): the first argument unless the second is greater
RMax(x, y) == IF RLess(x, y) THEN y ELSE x

\* x ** k for an integer k >= 0
RECURSIVE RPow(_, _)
RPow(x, k) ==
    IF k = 0 THEN One
    ELSE LET half == RPow(x, k \div 2)
             square == RMul(half, half)
         IN  IF k % 2 = 0 THEN square ELSE RMul(square, x)

\* ------------------------------------------------------------------------
\* financial_calculation.calculate_month_values
\* ------------------------------------------------------------------------
calculate_month_values_stale_deposit(current_amount, yearly_interest_rate, current_monthly_deposit_amount, monthly_deposit_yearly_growth) ==
    LET new_monthly_deposit ==
            RAdd(current_monthly_deposit_amount,
                 RMul(current_monthly_deposit_amount,
                      RDiv(monthly_deposit_yearly_growth, R(PercentPerYearToMonth))))
        interest_made ==
            RMul(current_amount, RDiv(yearly_interest_rate, R(PercentPerYearToMonth)))
        new_amount == RAdd(RAdd(current_amount, interest_made),
                           current_monthly_deposit_amount)
    IN  [new_amount |-> new_amount,
         interest_made |-> interest_made,
         new_monthly_deposit |-> new_monthly_deposit]

calculate_month_values(current_amount, yearly_interest_rate, current_monthly_deposit_amount, monthly_deposit_yearly_growth) ==
    LET new_monthly_deposit ==
            RAdd(current_monthly_deposit_amount,
                 RMul(current_monthly_deposit_amount,
                      RDiv(monthly_deposit_yearly_growth, R(PercentPerYearToMonth))))
        interest_made ==
            RMul(current_amount, RDiv(yearly_interest_rate, R(PercentPerYearToMonth)))
        new_amount == RAdd(RAdd(current_amount, interest_made), new_monthly_deposit)
    IN  [new_amount |-> new_amount,
         interest_made |-> interest_made,
         new_monthly_deposit |-> new_monthly_deposit]

\* ------------------------------------------------------------------------
\* Dates: <<year, month, day>>; pandas date_range(start, periods, freq="MS")
\* ------------------------------------------------------------------------
MonthOrdinal(date) == date[1] * MonthsPerYear + (date[2] - 1)

MonthStart(ordinal) ==
    <<ordinal \div MonthsPerYear, (ordinal % MonthsPerYear) + 1, 1>>

\* MonthBegin.rollforward: a date on the first of a month stays, any other
\* date moves to the first of the following month
rollforward(date) ==
    IF date[3] = 1 THEN date ELSE MonthStart(MonthOrdinal(date) + 1)

date_range_skipping(start, periods) ==
    [k \in 1..periods |->
        MonthStart(MonthOrdinal(rollforward(start)) + 2 * (k - 1))]

date_range(start, periods) ==
    [k \in 1..periods |->
        MonthStart(MonthOrdinal(rollforward(start)) + (k - 1))]

\* ------------------------------------------------------------------------
\* pandas Series.cumsum over a column of the frame
\* ------------------------------------------------------------------------
RECURSIVE cumsum(_)
cumsum(column) ==
    IF column = <<>> THEN <<>>
    ELSE LET n == Len(column)
             before == cumsum(SubSeq(column, 1, n - 1))
         IN  Append(before,
                    IF n = 1 THEN column[1] ELSE RAdd(before[n - 1], column[n]))

\* ------------------------------------------------------------------------
\* State
\* ------------------------------------------------------------------------
VARIABLES
    pc,                              \* where the program is
    caller,                          \* who called simulate_time_series
    step_args, current_val,          \* a direct call of calculate_month_values
    net_worth, base_monthly_deposit, monthly_deposit_yearly_growth,
    years, historical_returns_arg,   \* arguments of simulate_time_series
    historical_returns,              \* its local after line 36
    current_net_worth, current_monthly_deposit,
    year, month, yearly_interest_rate, data,
    df,                              \* the frame simulate_time_series returns
    clock,                           \* the last reading of datetime.now()
    simulations, table, iteration,   \* monte_carlo_accruing_wealth
    simulation_results, combined_results, mc_error,
    solver_args, required_monthly_investment, solver_error

stepVars == <<step_args, current_val>>
simArgs == <<net_worth, base_monthly_deposit, monthly_deposit_yearly_growth,
             years, historical_returns_arg>>
simLocals == <<historical_returns, current_net_worth, current_monthly_deposit,
               year, month, yearly_interest_rate, data>>
mcVars == <<simulations, table, iteration, simulation_results,
            combined_results, mc_error>>
solverVars == <<solver_args, required_monthly_investment, solver_error>>
vars == <<pc, caller, stepVars, simArgs, simLocals, df, clock, mcVars,
          solverVars>>

\* An optional list argument: None, or a list
None == [is_none |-> TRUE, value |-> <<>>]
Some(list) == [is_none |-> FALSE, value |-> list]

EmptyFrame == [index |-> <<>>, rows |-> <<>>]

\* ------------------------------------------------------------------------
\* Inputs
\* ------------------------------------------------------------------------
Amounts == {R(0), R(1), R(3)}
Deposits == {R(0), R(1), R(2)}
Growths == {R(0), R(-1200)}
BoomRate == R(1200)
Rates == {R(0), BoomRate, R(-1200)}
Clock == {<<2024, 11, 15>>, <<2024, 12, 1>>, <<2024, 12, 31>>}

StepInputs ==
    [current_amount : {R(0), R(1000), R(10000)},
     yearly_interest_rate : {R(0), R(6), R(7), R(-12)},
     current_monthly_deposit_amount : {R(0), R(500)},
     monthly_deposit_yearly_growth : {R(0), R(3), R(12)}]

BoomYears(list) == Cardinality({k \in 1..Len(list) : list[k] = BoomRate})

RateLists(n) ==
    {list \in [1..n -> Rates] : BoomYears(list) <= MaxBoomYears}

Init ==
    /\ pc = "idle"
    /\ caller = "user"
    /\ step_args = [current_amount |-> Zero, yearly_interest_rate |-> Zero,
                    current_monthly_deposit_amount |-> Zero,
                    monthly_deposit_yearly_growth |-> Zero]
    /\ current_val = [new_amount |-> Zero, interest_made |-> Zero,
                      new_monthly_deposit |-> Zero]
    /\ net_worth = Zero
    /\ base_monthly_deposit = Zero
    /\ monthly_deposit_yearly_growth = Zero
    /\ years = 0
    /\ historical_returns_arg = None
    /\ historical_returns = <<>>
    /\ current_net_worth = Zero
    /\ current_monthly_deposit = Zero
    /\ year = 0
    /\ month = 0
    /\ yearly_interest_rate = Zero
    /\ data = <<>>
    /\ df = EmptyFrame
    /\ clock = <<2024, 11, 15>>
    /\ simulations = 0
    /\ table = <<>>
    /\ iteration = 0
    /\ simulation_results = <<>>
    /\ combined_results = EmptyFrame
    /\ mc_error = "none"
    /\ solver_args = [current_net_worth |-> Zero, target_age |-> 0,
                      current_age |-> 0, yearly_interest_rate |-> Zero,
                      fire_objective |-> Zero]
    /\ required_monthly_investment = Zero
    /\ solver_error = "none"

\* ------------------------------------------------------------------------
\* A direct call of calculate_month_values
\* ------------------------------------------------------------------------
CallStep ==
    /\ pc = "idle"
    /\ \E args \in StepInputs :
        /\ step_args' = args
        /\ current_val' = calculate_month_values(
                              args.current_amount, args.yearly_interest_rate,
                              args.current_monthly_deposit_amount,
                              args.monthly_deposit_yearly_growth)
    /\ pc' = "step_done"
    /\ UNCHANGED <<caller, simArgs, simLocals, df, clock, mcVars, solverVars>>

\* ------------------------------------------------------------------------
\* simulation.simulate_time_series
\* ------------------------------------------------------------------------
\* the rate the outer loop reads for a year (line 40)
RateOfYear_first(returns, y) == returns[1]

RateOfYear(returns, y) == returns[y + 1]

\* lines 34-38: the state of the call before the first iteration
SimEnter(nw, deposit, growth, n, rates, from) ==
    LET effective == IF rates.is_none \/ rates.value = <<>>
                     THEN [k \in 1..n |-> R(DefaultRate)]
                     ELSE rates.value
    IN  /\ net_worth' = nw
        /\ base_monthly_deposit' = deposit
        /\ monthly_deposit_yearly_growth' = growth
        /\ years' = n
        /\ historical_returns_arg' = rates
        /\ historical_returns' = effective
        /\ current_net_worth' = nw
        /\ current_monthly_deposit' = deposit
        /\ year' = 0
        /\ month' = 0
        /\ yearly_interest_rate' = IF n > 0 THEN RateOfYear(effective, 0) ELSE Zero
        /\ data' = <<>>
        /\ df' = EmptyFrame
        /\ caller' = from
        /\ pc' = "sim_loop"

CallSimulate ==
    /\ pc = "idle"
    /\ \E nw \in Amounts, deposit \in Deposits, growth \in Growths,
          n \in 0..MaxYears :
          \/ \E list \in RateLists(n) :
                SimEnter(nw, deposit, growth, n, Some(list), "user")
          \/ /\ nw = Zero
             /\ deposit = Zero
             /\ SimEnter(nw, deposit, growth, n, None, "user")
    /\ UNCHANGED <<stepVars, clock, mcVars, solverVars>>

\* one iteration of the inner loop (lines 42-51), with the outer loop's
\* step to the next year after the twelfth month (lines 39-40)
SimMonth ==
    /\ pc = "sim_loop"
    /\ year < years
    /\ LET val == calculate_month_values(current_net_worth, yearly_interest_rate,
                                         current_monthly_deposit,
                                         monthly_deposit_yearly_growth)
       IN  /\ current_net_worth' = val.new_amount
           /\ current_monthly_deposit' = val.new_monthly_deposit
           /\ data' = Append(data, [net_worth |-> val.new_amount,
                                    interest |-> val.interest_made,
                                    monthly_investment |-> val.new_monthly_deposit])
    /\ IF month + 1 < MonthsPerYear
       THEN /\ month' = month + 1
            /\ UNCHANGED <<year, yearly_interest_rate>>
       ELSE /\ month' = 0
            /\ year' = year + 1
            /\ yearly_interest_rate' =
                   IF year + 1 < years
                   THEN RateOfYear(historical_returns, year + 1)
                   ELSE yearly_interest_rate
    /\ UNCHANGED <<pc, caller, stepVars, simArgs, historical_returns, df,
                   clock, mcVars, solverVars>>

Column(rows, name) == [k \in 1..Len(rows) |-> rows[k][name]]

\* lines 53-59: the frame built from data, with its two cumulative columns
BuildFrame_swapped(rows, now, n) ==
    LET investment == cumsum(Column(rows, "interest"))
        interest == cumsum(Column(rows, "monthly_investment"))
    IN  [index |-> date_range(now, n * MonthsPerYear),
         rows |-> [k \in 1..Len(rows) |->
                     [net_worth |-> rows[k].net_worth,
                      interest |-> rows[k].interest,
                      monthly_investment |-> rows[k].monthly_investment,
                      monthly_investment_cumsum |-> investment[k],
                      interest_cumsum |-> interest[k]]]]

BuildFrame(rows, now, n) ==
    LET investment == cumsum(Column(rows, "monthly_investment"))
        interest == cumsum(Column(rows, "interest"))
    IN  [index |-> date_range(now, n * MonthsPerYear),
         rows |-> [k \in 1..Len(rows) |->
                     [net_worth |-> rows[k].net_worth,
                      interest |-> rows[k].interest,
                      monthly_investment |-> rows[k].monthly_investment,
                      monthly_investment_cumsum |-> investment[k],
                      interest_cumsum |-> interest[k]]]]

\* the loops are over: simulate_time_series builds the frame and returns it
SimReturn ==
    /\ pc = "sim_loop"
    /\ year >= years
    /\ \E now \in Clock :
        LET frame == BuildFrame(data, now, years)
        IN  /\ MonthOrdinal(clock) * 31 + clock[3] <= MonthOrdinal(now) * 31 + now[3]
            /\ clock' = now
            /\ df' = frame
            /\ IF caller = "monte_carlo"
               THEN /\ simulation_results' = Append(simulation_results, frame)
                    /\ iteration' = iteration + 1
                    /\ pc' = "mc_loop"
               ELSE /\ pc' = "sim_done"
                    /\ UNCHANGED <<simulation_results, iteration>>
    /\ UNCHANGED <<caller, stepVars, simArgs, simLocals, simulations, table,
                   combined_results, mc_error, solverVars>>

\* ------------------------------------------------------------------------
\* simulation.monte_carlo_accruing_wealth
\* ------------------------------------------------------------------------
Tables == {<<BoomRate>>, <<R(0), BoomRate>>, <<BoomRate, R(0), R(-1200)>>}

MonteCarloInputs ==
    {<<R(1), R(1), R(0)>>, <<R(0), R(2), R(-1200)>>}

\* DataFrame.sample(n): pandas draws n distinct row positions (replace=False
\* is the default) and raises ValueError when n exceeds the number of rows
SamplePositions(rows, n) ==
    {draw \in [1..n -> 1..rows] :
        \A a, b \in 1..n : a # b => draw[a] # draw[b]}

CallMonteCarlo ==
    /\ pc = "idle"
    /\ \E input \in MonteCarloInputs, count \in 0..MaxSimulations,
          n \in 0..MaxYears, csv \in Tables :
        /\ net_worth' = input[1]
        /\ base_monthly_deposit' = input[2]
        /\ monthly_deposit_yearly_growth' = input[3]
        /\ simulations' = count
        /\ years' = n
        /\ table' = csv
    /\ iteration' = 0
    /\ simulation_results' = <<>>
    /\ combined_results' = EmptyFrame
    /\ mc_error' = "none"
    /\ caller' = "monte_carlo"
    /\ pc' = "mc_loop"
    /\ UNCHANGED <<stepVars, historical_returns_arg, simLocals, df, clock,
                   solverVars>>

\* one element of the list comprehension (lines 86-94): sample the table,
\* then call simulate_time_series with the sampled returns
MonteCarloRun ==
    /\ pc = "mc_loop"
    /\ iteration < simulations
    /\ IF years > Len(table)
       THEN /\ mc_error' = "ValueError"
            /\ pc' = "mc_failed"
            /\ UNCHANGED <<caller, simArgs, simLocals, df>>
       ELSE /\ \E draw \in SamplePositions(Len(table), years) :
                SimEnter(net_worth, base_monthly_deposit,
                         monthly_deposit_yearly_growth, years,
                         Some([k \in 1..years |-> table[draw[k]]]),
                         "monte_carlo")
            /\ UNCHANGED mc_error
    /\ UNCHANGED <<stepVars, clock, simulations, table, iteration,
                   simulation_results, combined_results, solverVars>>

\* line 98: the Iteration column of one frame
TagIteration_shifted(frame, i) ==
    [index |-> frame.index,
     rows |-> [k \in 1..Len(frame.rows) |->
                 [net_worth |-> frame.rows[k].net_worth,
                  interest |-> frame.rows[k].interest,
                  monthly_investment |-> frame.rows[k].monthly_investment,
                  monthly_investment_cumsum |->
                      frame.rows[k].monthly_investment_cumsum,
                  interest_cumsum |-> frame.rows[k].interest_cumsum,
                  iteration |-> i + 1]]]

TagIteration(frame, i) ==
    [index |-> frame.index,
     rows |-> [k \in 1..Len(frame.rows) |->
                 [net_worth |-> frame.rows[k].net_worth,
                  interest |-> frame.rows[k].interest,
                  monthly_investment |-> frame.rows[k].monthly_investment,
                  monthly_investment_cumsum |->
                      frame.rows[k].monthly_investment_cumsum,
                  interest_cumsum |-> frame.rows[k].interest_cumsum,
                  iteration |-> i]]]

\* pd.concat(frames, ignore_index=False)
RECURSIVE concat(_)
concat(frames) ==
    IF frames = <<>> THEN EmptyFrame
    ELSE LET n == Len(frames)
             before == concat(SubSeq(frames, 1, n - 1))
         IN  [index |-> before.index \o frames[n].index,
              rows |-> before.rows \o frames[n].rows]

\* lines 97-101: tag every frame with its position, concatenate, return;
\* pd.concat raises ValueError on an empty list of frames
MonteCarloCombine ==
    /\ pc = "mc_loop"
    /\ iteration >= simulations
    /\ IF simulation_results = <<>>
       THEN /\ mc_error' = "ValueError"
            /\ pc' = "mc_failed"
            /\ UNCHANGED <<simulation_results, combined_results>>
       ELSE LET tagged == [i \in 1..Len(simulation_results) |->
                              TagIteration(simulation_results[i], i - 1)]
            IN  /\ simulation_results' = tagged
                /\ combined_results' = concat(tagged)
                /\ pc' = "mc_done"
                /\ UNCHANGED mc_error
    /\ UNCHANGED <<caller, stepVars, simArgs, simLocals, df, clock,
                   simulations, table, iteration, solverVars>>

\* ------------------------------------------------------------------------
\* financial_calculation.calculate_required_monthly_investment
\* ------------------------------------------------------------------------
\* <<current_net_worth, fire_objective>>: plans whose monthly deposit stays
\* a small fraction at a monthly factor of 2 over 12 and over 24 months
SolverPlans ==
    {<<0, 0>>, <<0, 2>>, <<0, 16777215>>, <<1, 2>>, <<1, 5000>>,
     <<1, 16777216>>, <<3, 2>>, <<3, 5000>>}

SolverInputs ==
    {[current_net_worth |-> R(plan[1]),
      target_age |-> target,
      current_age |-> 30,
      yearly_interest_rate |-> rate,
      fire_objective |-> R(plan[2])] :
        plan \in SolverPlans, target \in 30..(30 + MaxAgeGap), rate \in Rates}

MonthlyFactor(rate) == RAdd(One, RDiv(RDiv(rate, R(100)), R(MonthsPerYear)))

calculate_required_monthly_investment_due(args) ==
    LET months_to_target == (args.target_age - args.current_age) * MonthsPerYear
        monthly_interest_rate == MonthlyFactor(args.yearly_interest_rate)
        growth == RPow(monthly_interest_rate, months_to_target)
        numerator == RMul(RSub(args.fire_objective,
                               RMul(args.current_net_worth, growth)),
                          RSub(monthly_interest_rate, One))
        denominator == RMul(RSub(growth, One), monthly_interest_rate)
    IN  IF denominator = Zero
        THEN [error |-> "ZeroDivisionError", value |-> Zero]
        ELSE [error |-> "none",
              value |-> RMax(RDiv(numerator, denominator), Zero)]

calculate_required_monthly_investment(args) ==
    LET months_to_target == (args.target_age - args.current_age) * MonthsPerYear
        monthly_interest_rate == MonthlyFactor(args.yearly_interest_rate)
        growth == RPow(monthly_interest_rate, months_to_target)
        numerator == RMul(RSub(args.fire_objective,
                               RMul(args.current_net_worth, growth)),
                          RSub(monthly_interest_rate, One))
        denominator == RSub(growth, One)
    IN  IF denominator = Zero
        THEN [error |-> "ZeroDivisionError", value |-> Zero]
        ELSE [error |-> "none",
              value |-> RMax(RDiv(numerator, denominator), Zero)]

CallSolver ==
    /\ pc = "idle"
    /\ \E args \in SolverInputs :
        LET result == calculate_required_monthly_investment(args)
        IN  /\ solver_args' = args
            /\ required_monthly_investment' = result.value
            /\ solver_error' = result.error
    /\ pc' = "solver_done"
    /\ UNCHANGED <<caller, stepVars, simArgs, simLocals, df, clock, mcVars>>

\* the plan the solver returned, replayed month by month: the simulator is
\* called with the solved deposit, no deposit growth and the solver's rate
\* for every year up to the target age
ReplayPlan ==
    /\ pc = "solver_done"
    /\ solver_error = "none"
    /\ RLess(Zero, solver_args.yearly_interest_rate)
    /\ LET n == solver_args.target_age - solver_args.current_age
       IN  SimEnter(solver_args.current_net_worth, required_monthly_investment,
                    Zero, n,
                    Some([k \in 1..n |-> solver_args.yearly_interest_rate]),
                    "replay")
    /\ UNCHANGED <<stepVars, clock, mcVars, solverVars>>

Next ==
    \/ CallStep
    \/ CallSimulate
    \/ SimMonth
    \/ SimReturn
    \/ CallMonteCarlo
    \/ MonteCarloRun
    \/ MonteCarloCombine
    \/ CallSolver
    \/ ReplayPlan

Spec == Init /\ [][Next]_vars

\* ------------------------------------------------------------------------
\* simulate_time_series as a function of its arguments and of the clock
\* ------------------------------------------------------------------------
RECURSIVE SimulatedData(_, _, _, _, _)
SimulatedData(nw, deposit, growth, returns, months) ==
    IF months = 0 THEN <<>>
    ELSE LET before == SimulatedData(nw, deposit, growth, returns, months - 1)
             last == IF months = 1
                     THEN [net_worth |-> nw, monthly_investment |-> deposit]
                     ELSE before[months - 1]
             val == calculate_month_values(
                        last.net_worth,
                        RateOfYear(returns, (months - 1) \div MonthsPerYear),
                        last.monthly_investment, growth)
         IN  Append(before, [net_worth |-> val.new_amount,
                             interest |-> val.interest_made,
                             monthly_investment |-> val.new_monthly_deposit])

simulate_time_series(nw, deposit, growth, n, rates, now) ==
    LET returns == IF rates.is_none \/ rates.value = <<>>
                   THEN [k \in 1..n |-> R(DefaultRate)]
                   ELSE rates.value
    IN  BuildFrame(SimulatedData(nw, deposit, growth, returns, n * MonthsPerYear),
                   now, n)

\* ------------------------------------------------------------------------
\* Properties
\* ------------------------------------------------------------------------
\* simulate_time_series has returned df for the arguments in simArgs
SimReturned ==
    \/ pc = "sim_done"
    \/ pc = "mc_loop" /\ iteration > 0

\* the arguments of the call are valid: at least one year, and the returns
\* omitted or one per year
SimValid ==
    /\ years >= 1
    /\ historical_returns_arg.is_none \/ Len(historical_returns_arg.value) = years

\* C1: calculate_month_values returns the deposit grown by a twelfth of the
\* annual growth, the interest of one month on the balance before the
\* deposit, and the balance plus that interest plus the grown deposit;
\* step(10000, 6, 500, 0) gives interest 50, deposit 500, balance 10550.
C1_MonthValues ==
    pc = "step_done" =>
        LET a == step_args
            deposit == RMul(a.current_monthly_deposit_amount,
                            RAdd(One, RDiv(RDiv(a.monthly_deposit_yearly_growth,
                                                R(100)), R(12))))
            interest == RMul(a.current_amount,
                             RDiv(RDiv(a.yearly_interest_rate, R(100)), R(12)))
        IN  /\ current_val.new_monthly_deposit = deposit
            /\ current_val.interest_made = interest
            /\ current_val.new_amount = RAdd(RAdd(a.current_amount, interest), deposit)
            /\ (/\ a.current_amount = R(10000)
                /\ a.yearly_interest_rate = R(6)
                /\ a.current_monthly_deposit_amount = R(500)
                /\ a.monthly_deposit_yearly_growth = R(0))
               => current_val = [new_amount |-> R(10550),
                                 interest_made |-> R(50),
                                 new_monthly_deposit |-> R(500)]

C1_Witness ==
    /\ pc = "step_done"
    /\ step_args = [current_amount |-> R(10000), yearly_interest_rate |-> R(6),
                    current_monthly_deposit_amount |-> R(500),
                    monthly_deposit_yearly_growth |-> R(0)]
    /\ current_val.new_amount = R(10550)

NextCalendarMonth(date) ==
    IF date[2] = 12 THEN <<date[1] + 1, 1, date[3]>>
    ELSE <<date[1], date[2] + 1, date[3]>>

\* C2: for valid arguments the returned frame has years * 12 records, and
\* the date of each record is one calendar month after the date of the
\* record before it.
C2_RecordsAndDates ==
    (SimReturned /\ SimValid) =>
        /\ Len(df.rows) = years * 12
        /\ Len(df.index) = years * 12
        /\ \A k \in 1..(Len(df.index) - 1) :
              df.index[k + 1] = NextCalendarMonth(df.index[k])

C2_Witness ==
    /\ pc = "sim_done"
    /\ years = 2
    /\ Len(df.index) = 24
    /\ df.index[1] = <<2024, 12, 1>>
    /\ df.index[2] = <<2025, 1, 1>>

RECURSIVE SumOfFirst(_, _, _)
SumOfFirst(rows, name, k) ==
    IF k = 0 THEN Zero ELSE RAdd(SumOfFirst(rows, name, k - 1), rows[k][name])

\* C3: at every record k of the returned frame the cumulative interest is
\* the sum of the interest of records 1..k and the cumulative deposit is the
\* sum of the monthly deposit of records 1..k.
C3_CumulativeSums ==
    SimReturned =>
        \A k \in 1..Len(df.rows) :
            /\ df.rows[k].interest_cumsum = SumOfFirst(df.rows, "interest", k)
            /\ df.rows[k].monthly_investment_cumsum =
                   SumOfFirst(df.rows, "monthly_investment", k)

C3_Witness ==
    /\ pc = "sim_done"
    /\ Len(df.rows) = 24
    /\ df.rows[24].interest_cumsum # df.rows[24].monthly_investment_cumsum
    /\ df.rows[24].interest_cumsum # df.rows[24].interest
    /\ df.rows[24].monthly_investment_cumsum # df.rows[24].monthly_investment

\* the rate the claim assigns to month m (0-based) of the run
RateOfMonth(m) ==
    IF historical_returns_arg.is_none THEN R(7)
    ELSE historical_returns_arg.value[(m \div 12) + 1]

BalanceBefore(m) == IF m = 0 THEN net_worth ELSE data[m].net_worth

\* C4: month m (0-based) of a run is computed with the rate of year m div 12
\* of the supplied returns, and with 7 when the returns are omitted.
C4_RateOfEachMonth ==
    (pc \in {"sim_loop", "sim_done"} /\ SimValid) =>
        /\ \A m \in 0..(Len(data) - 1) :
              data[m + 1].interest =
                  RMul(BalanceBefore(m), RDiv(RateOfMonth(m), R(1200)))
        /\ (pc = "sim_loop" /\ year < years) =>
              yearly_interest_rate = RateOfMonth(Len(data))

C4_Witness ==
    /\ pc = "sim_done"
    /\ years = 2
    /\ ~historical_returns_arg.is_none
    /\ historical_returns_arg.value[1] # historical_returns_arg.value[2]
    /\ Len(data) = 24
    /\ BalanceBefore(12) # Zero
    /\ data[13].interest =
           RMul(BalanceBefore(12), RDiv(historical_returns_arg.value[2], R(1200)))
    /\ data[13].interest #
           RMul(BalanceBefore(12), RDiv(historical_returns_arg.value[1], R(1200)))

\* C5: the Monte Carlo driver samples the table with replacement, so a call
\* with at least one simulation, at least one year and a non-empty table
\* never fails, however many years are asked of however few rows.
C5_SamplingNeverFails ==
    (simulations >= 1 /\ years >= 1 /\ Len(table) >= 1) => pc # "mc_failed"

SolverMonths == (solver_args.target_age - solver_args.current_age) * 12

\* C6: at a rate of 0 and a target age after the current age the solver
\* returns (target - net worth) / n, clamped at 0, and does not end in a
\* division by zero.
C6_ZeroRateLinearForm ==
    (/\ pc = "solver_done"
     /\ solver_args.yearly_interest_rate = Zero
     /\ solver_args.target_age > solver_args.current_age) =>
        /\ solver_error = "none"
        /\ required_monthly_investment =
               RMax(RDiv(RSub(solver_args.fire_objective,
                              solver_args.current_net_worth),
                         R(SolverMonths)), Zero)

\* i^n of the claim: (1 + rate/100/12) to the power of the months to target
SolverGrowth ==
    RPow(RAdd(One, RDiv(RDiv(solver_args.yearly_interest_rate, R(100)), R(12))),
         SolverMonths)

\* C7: for every input with the target age after the current age the solver
\* returns 0 when net worth * i^n >= target and the closed form
\* ((target - net worth * i^n) * (i - 1)) / (i^n - 1) otherwise.
C7_ClampedClosedForm ==
    (pc = "solver_done" /\ solver_args.target_age > solver_args.current_age) =>
        /\ solver_error = "none"
        /\ required_monthly_investment =
               IF RLeq(solver_args.fire_objective,
                       RMul(solver_args.current_net_worth, SolverGrowth))
               THEN Zero
               ELSE RDiv(RMul(RSub(solver_args.fire_objective,
                                   RMul(solver_args.current_net_worth,
                                        SolverGrowth)),
                              RDiv(RDiv(solver_args.yearly_interest_rate, R(100)),
                                   R(12))),
                         RSub(SolverGrowth, One))

\* C8: for a positive rate, a target age after the current age and a
\* positive solved deposit, the run that starts from the net worth and
\* applies the month step n times with that deposit, no deposit growth and
\* that rate ends with a balance equal to the target amount.
C8_RoundTrip ==
    (/\ pc = "sim_done"
     /\ caller = "replay"
     /\ RLess(Zero, solver_args.yearly_interest_rate)
     /\ solver_args.target_age > solver_args.current_age
     /\ RLess(Zero, required_monthly_investment)) =>
        /\ Len(df.rows) = SolverMonths
        /\ df.rows[SolverMonths].net_worth = solver_args.fire_objective

C8_Witness ==
    /\ pc = "sim_done"
    /\ caller = "replay"
    /\ solver_args.current_net_worth = R(1)
    /\ solver_args.fire_objective = R(5000)
    /\ required_monthly_investment = <<904, 4095>>
    /\ base_monthly_deposit = required_monthly_investment
    /\ df.rows[12].net_worth = R(5000)

Trajectory(frame) ==
    [k \in 1..Len(frame.rows) |->
        <<frame.rows[k].net_worth, frame.rows[k].interest,
          frame.rows[k].monthly_investment,
          frame.rows[k].monthly_investment_cumsum,
          frame.rows[k].interest_cumsum>>]

\* C9: for every number of years >= 1, one Monte Carlo simulation over a
\* table with the single value r gives the trajectory of simulate_time_series
\* with the rate r in every year.
C9_SingleRunIsFixedRate ==
    (/\ pc \in {"mc_done", "mc_failed"}
     /\ simulations = 1
     /\ Len(table) = 1
     /\ years >= 1) =>
        /\ pc = "mc_done"
        /\ Trajectory(combined_results) =
               Trajectory(simulate_time_series(
                              net_worth, base_monthly_deposit,
                              monthly_deposit_yearly_growth, years,
                              Some([k \in 1..years |-> table[1]]), clock))

\* C10: the result of the Monte Carlo driver holds simulations frames of
\* years * 12 records each, every record of the i-th frame carries the
\* iteration i, and the iterations present are exactly 0..simulations-1.
C10_IterationTags ==
    (pc = "mc_done" /\ years >= 1) =>
        /\ Len(simulation_results) = simulations
        /\ Len(combined_results.rows) = simulations * years * 12
        /\ \A i \in 1..simulations :
              /\ Len(simulation_results[i].rows) = years * 12
              /\ \A k \in 1..(years * 12) :
                    /\ simulation_results[i].rows[k].iteration = i - 1
                    /\ combined_results.rows[(i - 1) * years * 12 + k] =
                           simulation_results[i].rows[k]
        /\ {combined_results.rows[k].iteration :
                k \in 1..Len(combined_results.rows)} = 0..(simulations - 1)

C10_Witness ==
    /\ pc = "mc_done"
    /\ simulations = 2
    /\ years = 2
    /\ Len(combined_results.rows) = 48
    /\ combined_results.rows[1].iteration = 0
    /\ combined_results.rows[48].iteration = 1

\* C11: a call of simulate_time_series or of the Monte Carlo driver with
\* fewer than one year, and a call of the Monte Carlo driver with fewer than
\* one simulation, fails with an error: it never returns a result, empty or
\* partial.
C11_InvalidParametersFail ==
    /\ (pc = "sim_done" /\ caller = "user") => years >= 1
    /\ (pc = "mc_loop" /\ iteration > 0) => years >= 1
    /\ pc = "mc_done" => (years >= 1 /\ simulations >= 1)

====
